---- MODULE Spec2Model ----
(***************************************************************************)
(* A model of the rcu-clean smart pointers.                                *)
(*                                                                         *)
(* Part 1 (Spec, SpecExcl, SpecRc, SpecTest): one slot of a container used  *)
(* through its handles, every call running to its end before the next.     *)
(* The variable kind says which container the slot belongs to; memory is a *)
(* table of addresses that are never reused, so a freed address stays      *)
(* freed and a dangling reference can be seen.                             *)
(*                                                                         *)
(* Part 2 (SpecArc): an ArcRcu slot whose handles are owned by different   *)
(* threads; deref and clean are taken one memory access at a time.         *)
(*                                                                         *)
(* Part 3 (SpecGrace): one graceful::Rcu with the global source of grace,  *)
(* grace periods, readers and updating threads.                            *)
(***************************************************************************)
EXTENDS Integers, Sequences, FiniteSets, TLC

\* Bounds of the model.
MaxHandles == 2
MaxAllocs == 3

\* The null pointer, and the address that stands for the list node stored
\* inline in Inner (rcrcu.rs, arcrcu.rs: the head of the version chain).
Null == -1
HeadSlot == 0

Handles == 1..MaxHandles
\* Addresses: the containers of lib.rs allocate twice per update (the guard's
\* box, and its clone when the guard is dropped), the others once.
Addrs == 1..(2 * MaxAllocs - 1)
\* The values of T the model tells apart.
Values == {0, 1}

VARIABLES
  kind,     \* which container this slot is
  mem,      \* address -> [st, val, next]
  cur,      \* the published pointer (current / BoxRcu.inner), Null for the chain kinds
  old,      \* the retirement vector (Inner.old), a sequence of addresses
  count,    \* Inner.borrow_count
  writing,  \* Inner.am_writing
  hs,       \* handle -> [st, flag]; flag is have_borrowed
  refs,     \* handle -> the references deref returned through it that may be live
  guards,   \* the outstanding update guards, [h, a]: made through h, private copy at a
  ver,      \* how often the head slot's value has been overwritten by a collapse
  status,   \* "run", or how the program stopped: "deadlock", "crash"
  pc        \* Part 2: handle -> where its thread is inside deref or clean

\* Part 3: the state of graceful.rs.
VARIABLES
  gens,     \* the grace periods' vectors: [rc, vec, link, st], in order of creation
  gcur,     \* the one the source of grace (GRACE) holds
  glock,    \* the thread that holds the mutex of GRACE, 0 when it is free
  graces,   \* the Grace objects, in order of creation: [gen, st]
  gvals,    \* the values Rcu has pointed to: [st, rc, val, readers]; rc counts its Arcs
  rcu,      \* the pointer of the Rcu that new returned, 0 when it is null
  rst,      \* Rcu -> "none", "live", "dropped"; Rcu 0 is the one new returned
  cptr,     \* clone -> its pointer, 0 when it is null
  rguards,  \* the live RcuGuards, [g, v]: read under grace g, pointing to value v
  upc       \* updating thread -> where it is inside update, and its locals

slotVars == <<kind, mem, cur, old, count, writing, hs, refs, guards, ver, status>>
graceVars == <<gens, gcur, glock, graces, gvals, rcu, rst, cptr, rguards, upc>>
vars == <<slotVars, pc, graceVars>>

\* --------------------------------------------------------------- the kinds
LibKinds == {"BoxCellLib", "RcCellLib", "ArcCellLib"}
LockKinds == {"BoxCell", "BoxCellSync", "RcCell", "RcNew"}
ChainKinds == {"RcRcu", "ArcRcu"}
CellKinds == LibKinds \cup LockKinds
ExclKinds == {"BoxCellLib", "BoxCell", "BoxCellSync", "BoxRcu"}
SharedKinds == {"RcCellLib", "ArcCellLib", "RcCell", "RcNew", "RcRcu", "ArcRcu"}

Unalloc == [st |-> "unalloc", val |-> 0, next |-> Null]
Cell(v, n) == [st |-> "live", val |-> v, next |-> n]

\* The k-th address not yet handed out (addresses are handed out in order).
Used == Cardinality({a \in Addrs : mem[a].st # "unalloc"})
Fresh(k) == Used + k
AllocBound == IF kind \in LibKinds THEN 2 * MaxAllocs - 1 ELSE MaxAllocs
HasFresh(k) == Used + k <= AllocBound

\* The nodes of the chain that starts at address a.
RECURSIVE Chain(_)
Chain(a) == IF a = Null THEN {} ELSE {a} \cup Chain(mem[a].next)

Live(h) == hs[h].st = "live"
SlotLive == \E h \in Handles : Live(h)
Running == status = "run"
GuardsOf(h) == {g \in guards : g.h = h}

\* A thread that is inside no call.
IdlePc == [at |-> "idle", nx |-> Null, bc |-> 0, buf |-> 0, tofree |-> Null]
Idle(h) == pc[h].at = "idle"

\* No graceful::Rcu exists and GRACE is not initialised.
MaxUpdaters == 2
Updaters == 1..MaxUpdaters
MaxClones == 2
CloneIds == 1..MaxClones
RcuIds == 0..MaxClones
IdleUpc == [at |-> "idle", g |-> 0, p |-> 0, new |-> 0, old |-> 0, next |-> 0]

NoRcu ==
  /\ gens = <<>> /\ gcur = 0 /\ glock = 0
  /\ graces = <<>> /\ gvals = <<>> /\ rcu = 0
  /\ rst = [x \in RcuIds |-> "none"] /\ cptr = [x \in CloneIds |-> 0]
  /\ rguards = {}
  /\ upc = [u \in Updaters |-> IdleUpc]

\* ------------------------------------------------------------ construction
NewCell(k, v) ==
  /\ kind = k
  /\ mem = [a \in {HeadSlot} \cup Addrs |-> IF a = 1 THEN Cell(v, Null) ELSE Unalloc]
  /\ cur = 1

NewChain(k, v) ==
  /\ kind = k
  /\ mem = [a \in {HeadSlot} \cup Addrs |-> IF a = HeadSlot THEN Cell(v, Null) ELSE Unalloc]
  /\ cur = Null

NewSlot(k, v) ==
  /\ IF k \in ChainKinds THEN NewChain(k, v) ELSE NewCell(k, v)
  /\ old = <<>>
  /\ count = 0
  /\ writing = FALSE
  /\ hs = [h \in Handles |-> IF h = 1 THEN [st |-> "live", flag |-> FALSE]
                                      ELSE [st |-> "none", flag |-> FALSE]]
  /\ refs = [h \in Handles |-> {}]
  /\ guards = {}
  /\ ver = 0
  /\ status = "run"
  /\ pc = [h \in Handles |-> IdlePc]

\* ------------------------------------------------------------------- deref
\* A deref that never follows the forward link.
TargetStale == IF kind \in ChainKinds THEN HeadSlot ELSE cur

\* The address whose value deref returns.
Target ==
  IF kind \in ChainKinds
  THEN IF mem[HeadSlot].next = Null THEN HeadSlot ELSE mem[HeadSlot].next
  ELSE cur

DerefVal == mem[Target].val

\* A reference: the address, and for the head slot the version it saw.
RefTo(a) == [a |-> a, v |-> IF a = HeadSlot THEN ver ELSE 0]
RefOk(r) == mem[r.a].st = "live" /\ (r.a = HeadSlot => r.v = ver)

\* The borrow tracker's part of deref: the flag and the count after it.
BorrowFlags(h) ==
  IF kind \in SharedKinds THEN [hs EXCEPT ![h].flag = TRUE] ELSE hs

\* A tracker that counts every deref, flag or no flag.
BorrowCountEveryDeref(h) ==
  IF kind \in SharedKinds THEN count + 1 ELSE count

BorrowCount(h) ==
  IF kind \in SharedKinds /\ ~hs[h].flag THEN count + 1 ELSE count

Deref(h) ==
  /\ Running /\ Live(h)
  /\ hs' = BorrowFlags(h)
  /\ count' = BorrowCount(h)
  /\ refs' = [refs EXCEPT ![h] = @ \cup {RefTo(Target)}]
  /\ UNCHANGED <<pc, graceVars, kind, mem, cur, old, writing, guards, ver, status>>

\* ------------------------------------------------------------------- clone
NewHandle == CHOOSE h \in Handles : hs[h].st = "none" /\ \A k \in Handles : hs[k].st = "none" => h <= k

\* A clone that copies the flag of the handle it is made from.
CloneFlagCopied(h) == hs[h].flag

CloneFlag(h) == IF kind = "ArcCellLib" THEN hs[h].flag ELSE FALSE

Clone(h) ==
  /\ Running /\ Live(h)
  /\ kind \in SharedKinds
  /\ \E k \in Handles : hs[k].st = "none"
  /\ hs' = [hs EXCEPT ![NewHandle] = [st |-> "live", flag |-> CloneFlag(h)]]
  /\ UNCHANGED <<pc, graceVars, kind, mem, cur, old, count, writing, refs, guards, ver, status>>

\* ------------------------------------------------------------------ update
\* The guard's private copy: a clone of what deref returns; in the chain
\* kinds and in BoxRcu it also takes a copy of a forward link.
\* A guard that captures no forward link.
CopiedNextNone == Null

CopiedNext ==
  IF kind \in ChainKinds THEN mem[HeadSlot].next
  ELSE IF kind = "BoxRcu" THEN mem[cur].next
  ELSE Null

PrivateCopy ==
  [st |-> IF kind \in ChainKinds THEN "guard" ELSE "live",
   val |-> DerefVal, next |-> CopiedNext]

\* A guard that works on the published value in place.
GuardAddrInPlace == Target

\* What stops a second update: am_writing in the chain kinds, the RefCell or
\* Mutex around old (held by every guard) in the lock kinds, nothing elsewhere.
\* The address of the private copy: a fresh allocation.
GuardAddr == Fresh(1)

\* An update that nothing ever stops.
NeverBlocked == FALSE

UpdateBlocked ==
  IF kind \in ChainKinds THEN writing
  ELSE IF kind \in LockKinds THEN guards # {}
  ELSE FALSE

Update(h) ==
  /\ Running /\ Live(h)
  /\ HasFresh(1)
  /\ ~UpdateBlocked
  /\ mem' = [mem EXCEPT ![GuardAddr] = PrivateCopy]
  /\ guards' = guards \cup {[h |-> h, a |-> GuardAddr]}
  /\ writing' = IF kind \in ChainKinds THEN TRUE ELSE writing
  /\ hs' = BorrowFlags(h)
  /\ count' = BorrowCount(h)
  /\ UNCHANGED <<pc, graceVars, kind, cur, old, refs, ver, status>>

\* A second update that does not return.  The chain kinds panic before they
\* touch anything.  The lock kinds have already dereferenced and allocated
\* the copy (which is leaked, and marked so) when borrow_mut panics; relocking a std Mutex on
\* the same thread panics or deadlocks.
UpdateOutcomes == IF kind = "BoxCellSync" THEN {"run", "deadlock"} ELSE {"run"}

UpdatePanics(h) ==
  /\ Running /\ Live(h)
  /\ UpdateBlocked
  /\ IF kind \in ChainKinds
     THEN UNCHANGED <<mem, hs, count, status>>
     ELSE /\ HasFresh(1)
          /\ mem' = [mem EXCEPT ![Fresh(1)] = [PrivateCopy EXCEPT !.st = "leaked"]]
          /\ hs' = BorrowFlags(h)
          /\ count' = BorrowCount(h)
          /\ \E o \in UpdateOutcomes : status' = o
  /\ UNCHANGED <<pc, graceVars, kind, cur, old, writing, refs, guards, ver>>

\* The guard's deref_mut: the caller writes v into the private copy.
Mutate(g, v) ==
  /\ Running /\ g \in guards
  /\ mem' = [mem EXCEPT ![g.a].val = v]
  /\ UNCHANGED <<pc, graceVars, kind, cur, old, count, writing, hs, refs, guards, ver, status>>

\* ------------------------------------------------------- release of a guard
\* A guard whose drop replaces current without retiring it.
LibGuardDropLeaky(g) ==
  [mem |-> [mem EXCEPT ![Fresh(1)] = Cell(mem[g.a].val, Null), ![g.a].st = "freed"],
   cur |-> Fresh(1),
   old |-> old]

\* lib.rs: a clone of the guard's value becomes current, the old current
\* box goes to old, and the guard's own box is freed with the guard.
LibGuardDrop(g) ==
  [mem |-> [mem EXCEPT ![Fresh(1)] = Cell(mem[g.a].val, Null), ![g.a].st = "freed"],
   cur |-> Fresh(1),
   old |-> Append(old, cur)]

\* A swap that frees the displaced box at once instead of retiring it.
CellGuardDropEager(g) ==
  [mem |-> [mem EXCEPT ![cur].st = "freed"], cur |-> g.a, old |-> old]

\* A swap that retires the displaced box twice.
CellGuardDropTwice(g) ==
  [mem |-> mem, cur |-> g.a, old |-> Append(Append(old, cur), cur)]

\* boxcell.rs, boxcellsync.rs, rccell.rs: the pointers are swapped.
CellGuardDrop(g) ==
  [mem |-> mem, cur |-> g.a, old |-> Append(old, cur)]

\* The update and guard of RcNew come from the impl_rcu macro of the crate
\* root; get_raw, set_raw and get_old_guard are those of RcCell.
RcNewGuardDrop(g) == CellGuardDrop(g)

\* A release that boxes the guard's list and forgets to link it.
ChainGuardDropUnlinked(g) ==
  [mem |-> [mem EXCEPT ![g.a].st = "live"], cur |-> cur, old |-> old]

\* rcrcu.rs, arcrcu.rs: the guard's list is boxed and becomes the head's next.
ChainGuardDrop(g) ==
  [mem |-> [mem EXCEPT ![HeadSlot].next = g.a, ![g.a].st = "live"],
   cur |-> cur, old |-> old]

\* boxrcu.rs: the guard's node becomes the inner pointer.
BoxRcuGuardDrop(g) ==
  [mem |-> mem, cur |-> g.a, old |-> old]

GuardDrop(g) ==
  CASE kind \in LibKinds -> LibGuardDrop(g)
    [] kind = "RcNew" -> RcNewGuardDrop(g)
    [] kind \in LockKinds \ {"RcNew"} -> CellGuardDrop(g)
    [] kind \in ChainKinds -> ChainGuardDrop(g)
    [] OTHER -> BoxRcuGuardDrop(g)

\* A release that leaves am_writing set.
WritingKept == writing

\* The end of Guard::drop in the chain kinds: am_writing is cleared.
WritingAfterDrop == IF kind \in ChainKinds THEN FALSE ELSE writing

Release(g) ==
  /\ Running /\ g \in guards
  /\ kind \in LibKinds => HasFresh(1)
  /\ mem' = GuardDrop(g).mem
  /\ cur' = GuardDrop(g).cur
  /\ old' = GuardDrop(g).old
  /\ writing' = WritingAfterDrop
  /\ guards' = guards \ {g}
  /\ UNCHANGED <<pc, graceVars, kind, count, hs, refs, ver, status>>

\* ------------------------------------------------------------------- clean
Range(s) == {s[i] : i \in 1..Len(s)}
Free(m, S) == [a \in DOMAIN m |-> IF a \in S THEN [m[a] EXCEPT !.st = "freed"] ELSE m[a]]
ClearFlag(h) == [hs EXCEPT ![h].flag = FALSE]

\* What a clean that changes nothing leaves.
Same == [mem |-> mem, old |-> old, count |-> count, hs |-> hs, ver |-> ver, status |-> "run"]

\* borrow_count is a usize.  The model keeps an integer that stands for its
\* residue modulo 2^64: a decrement of zero gives -1, which a release build
\* stores as usize::MAX and a debug build refuses with a panic.  A call of
\* clean has more than one outcome only there, and in BoxRcu when it is
\* handed a null forward link, which it frees (undefined behaviour).
CleanOutcomes(h) ==
  IF kind = "BoxRcu"
  THEN IF mem[cur].next = Null THEN {"crash", "noop"} ELSE {"ok"}
  ELSE IF kind \in SharedKinds /\ hs[h].flag /\ count = 0 THEN {"wrap", "panic"}
  ELSE {"ok"}

\* A clean that forgets the retired boxes without dropping them.
BoxCleanLeaky ==
  [Same EXCEPT !.old = <<>>]

\* BoxCell (lib.rs, boxcell.rs) and BoxCellSync: old is replaced by an empty vector.
BoxClean ==
  [Same EXCEPT !.mem = Free(mem, Range(old)), !.old = <<>>]

\* A clean that empties old whenever its own handle had borrowed.
TrackedCleanEager(h, o) ==
  IF ~hs[h].flag THEN Same
  ELSE [Same EXCEPT !.count = count - 1, !.hs = ClearFlag(h),
                    !.mem = Free(mem, Range(old)), !.old = <<>>]

\* RcCell (rccell.rs, lib.rs), RcNew and the ArcCell of lib.rs.
TrackedClean(h, o) ==
  IF ~hs[h].flag THEN Same
  ELSE IF o = "panic"
  THEN [Same EXCEPT !.hs = IF kind = "ArcCellLib" THEN ClearFlag(h) ELSE hs]
  ELSE IF count - 1 # 0
  THEN [Same EXCEPT !.count = count - 1, !.hs = ClearFlag(h)]
  ELSE IF kind \in LockKinds /\ guards # {}
  THEN [Same EXCEPT !.count = 0]
  ELSE [Same EXCEPT !.count = 0, !.hs = ClearFlag(h),
                    !.mem = Free(mem, Range(old)), !.old = <<>>]

\* RcRcu and ArcRcu: release this handle's borrow, then collapse the chain
\* when nothing is borrowed: the newest value is moved into the head slot
\* and the chain is freed with the head's former value in it.
\* A release that takes one off the count whether or not the flag is set.
ReleasedCountUnflagged(h, o) == IF o # "panic" THEN count - 1 ELSE count

ReleasedCount(h, o) == IF hs[h].flag /\ o # "panic" THEN count - 1 ELSE count

\* A collapse that does not look at the count.
CollapsesUncounted(h, o) ==
  o # "panic" /\ mem[HeadSlot].next # Null

Collapses(h, o) ==
  o # "panic" /\ ReleasedCount(h, o) = 0 /\ mem[HeadSlot].next # Null

\* A collapse that drops the chain and leaves the head's value as it was.
CollapsedUnmoved ==
  Free([mem EXCEPT ![HeadSlot].next = Null], Chain(mem[HeadSlot].next))

Collapsed ==
  Free([mem EXCEPT ![HeadSlot] = Cell(mem[mem[HeadSlot].next].val, Null),
                   ![mem[HeadSlot].next].val = mem[HeadSlot].val],
       Chain(mem[HeadSlot].next))

ChainClean(h, o) ==
  [Same EXCEPT !.count = ReleasedCount(h, o),
               !.hs = IF o = "panic" THEN hs ELSE ClearFlag(h),
               !.mem = IF Collapses(h, o) THEN Collapsed ELSE mem,
               !.ver = IF Collapses(h, o) THEN ver + 1 ELSE ver]

\* BoxRcu and BoxNew: the current node's forward link is taken and freed.
BoxRcuClean(o) ==
  IF o = "ok"
  THEN [Same EXCEPT !.mem = Free([mem EXCEPT ![cur].next = Null], Chain(mem[cur].next))]
  ELSE [Same EXCEPT !.status = IF o = "crash" THEN "crash" ELSE "run"]

CleanResult(h, o) ==
  CASE kind \in ChainKinds -> ChainClean(h, o)
    [] kind = "BoxRcu" -> BoxRcuClean(o)
    [] kind \in {"BoxCellLib", "BoxCell", "BoxCellSync"} -> BoxClean
    [] OTHER -> TrackedClean(h, o)

\* clean takes &mut self: no reference and no guard obtained through this
\* handle is alive any more.
Clean(h) ==
  /\ Running /\ Live(h)
  /\ GuardsOf(h) = {}
  /\ \E o \in CleanOutcomes(h) :
       /\ mem' = CleanResult(h, o).mem
       /\ old' = CleanResult(h, o).old
       /\ count' = CleanResult(h, o).count
       /\ hs' = CleanResult(h, o).hs
       /\ ver' = CleanResult(h, o).ver
       /\ status' = CleanResult(h, o).status
  /\ refs' = [refs EXCEPT ![h] = {}]
  /\ UNCHANGED <<pc, graceVars, kind, cur, writing, guards>>

\* ------------------------------------------------------- dropping a handle
\* No handle type has a Drop impl: a handle dropped with its flag set leaves
\* borrow_count as it is.  With the last handle the slot goes: the Rc/Arc
\* drops Inner, or the Box container itself is dropped.
\* A destruction that frees what is current and nothing else.
DestroyedCurrentOnly ==
  Free(mem, IF kind \in ChainKinds THEN {HeadSlot} ELSE {cur})

Destroyed ==
  CASE kind \in ChainKinds -> Free(mem, {HeadSlot} \cup Chain(mem[HeadSlot].next))
    [] kind = "BoxRcu" -> mem
    [] kind = "RcNew" -> Free(mem, Range(old))
    [] OTHER -> Free(mem, {cur} \cup Range(old))

LastHandle(h) == \A k \in Handles \ {h} : ~Live(k)

DropHandle(h) ==
  /\ Running /\ Live(h)
  /\ GuardsOf(h) = {}
  /\ hs' = [hs EXCEPT ![h].st = "dropped"]
  /\ refs' = [refs EXCEPT ![h] = {}]
  /\ mem' = IF LastHandle(h) THEN Destroyed ELSE mem
  /\ old' = IF LastHandle(h) /\ kind # "BoxRcu" THEN <<>> ELSE old
  /\ UNCHANGED <<pc, graceVars, kind, cur, count, writing, guards, ver, status>>

\* ------------------------------------------------------ the specifications
\* Every slot starts as new(0): the code never looks into a value.
Init == NoRcu /\ \E k \in SharedKinds : NewSlot(k, 0)

Next ==
  \/ \E h \in Handles : Deref(h)
  \/ \E h \in Handles : Clone(h)
  \/ \E h \in Handles : Update(h)
  \/ \E h \in Handles : UpdatePanics(h)
  \/ \E g \in guards, v \in Values : Mutate(g, v)
  \/ \E g \in guards : Release(g)
  \/ \E h \in Handles : Clean(h)
  \/ \E h \in Handles : DropHandle(h)

Spec == Init /\ [][Next]_vars

InitExcl == NoRcu /\ \E k \in ExclKinds : NewSlot(k, 0)

NextExcl ==
  \/ \E h \in Handles : Deref(h)
  \/ \E h \in Handles : Update(h)
  \/ \E h \in Handles : UpdatePanics(h)
  \/ \E g \in guards, v \in Values : Mutate(g, v)
  \/ \E g \in guards : Release(g)
  \/ \E h \in Handles : Clean(h)
  \/ \E h \in Handles : DropHandle(h)

SpecExcl == InitExcl /\ [][NextExcl]_vars

\* Every container of Part 1.
AllKinds == SharedKinds \cup ExclKinds
InitAll == NoRcu /\ \E k \in AllKinds : NewSlot(k, 0)
SpecAll == InitAll /\ [][Next]_vars

\* RcCell (rccell.rs), RcRcu and ArcRcu, one call at a time.
TrackedKinds == {"RcCell", "RcRcu", "ArcRcu"}
InitTracked == NoRcu /\ \E k \in TrackedKinds : NewSlot(k, 0)
SpecTracked == InitTracked /\ [][Next]_vars

\* The containers that retire the displaced box into a vector at once.
EagerKinds == {"BoxCellLib", "BoxCell", "BoxCellSync", "RcCell", "RcCellLib"}
InitEager == NoRcu /\ \E k \in EagerKinds : NewSlot(k, 0)
SpecEager == InitEager /\ [][Next]_vars

\* RcCell (rccell.rs) and RcRcu alone.
InitRc == NoRcu /\ \E k \in {"RcCell", "RcRcu"} : NewSlot(k, 0)
SpecRc == InitRc /\ [][Next]_vars

\* The containers tests/test.rs runs testany on (BoxNew is BoxRcu, ArcNew is
\* ArcRcu; RcCell, ArcCell and BoxCell are those of lib.rs).
TestKinds == {"BoxRcu", "RcNew", "ArcRcu", "RcCellLib", "ArcCellLib", "BoxCellLib", "BoxCellSync"}
InitTest == NoRcu /\ \E k \in TestKinds : NewSlot(k, 0)
SpecTest == InitTest /\ [][Next]_vars

\* ===================================================== Part 2: ArcRcu, threads
\* Each handle is owned by a thread of its own.  deref and clean are taken
\* one access to the shared Inner at a time; pc[h] holds the thread's place
\* and its locals: nx (next), bc (borrow_count), buf (buffer), tofree.
At(h, l) == pc[h].at = l
Goto(h, l) == [pc EXCEPT ![h].at = l]

\* deref: fetch_add and the flag.
DerefCount(h) ==
  /\ Running /\ Live(h) /\ Idle(h)
  /\ hs' = BorrowFlags(h)
  /\ count' = BorrowCount(h)
  /\ pc' = Goto(h, "d_load")
  /\ UNCHANGED <<graceVars, kind, mem, cur, old, writing, refs, guards, ver, status>>

\* deref: the load of list.next.
DerefLoad(h) ==
  /\ Running /\ At(h, "d_load")
  /\ pc' = [pc EXCEPT ![h].at = "d_ref", ![h].nx = mem[HeadSlot].next]
  /\ UNCHANGED <<graceVars, slotVars>>

\* deref: the reference is formed from the pointer that was loaded.
LoadedTarget(h) == IF pc[h].nx = Null THEN HeadSlot ELSE pc[h].nx

DerefRef(h) ==
  /\ Running /\ At(h, "d_ref")
  /\ refs' = [refs EXCEPT ![h] = @ \cup {RefTo(LoadedTarget(h))}]
  /\ pc' = [pc EXCEPT ![h] = IdlePc]
  /\ UNCHANGED <<graceVars, kind, mem, cur, old, count, writing, hs, guards, ver, status>>

\* clean: fetch_sub and the flag.  clean takes &mut self, so the references
\* and guards obtained through this handle are gone.
CleanCount(h) ==
  /\ Running /\ Live(h) /\ Idle(h)
  /\ GuardsOf(h) = {}
  /\ count' = IF hs[h].flag THEN count - 1 ELSE count
  /\ hs' = ClearFlag(h)
  /\ refs' = [refs EXCEPT ![h] = {}]
  /\ pc' = Goto(h, "c_count")
  /\ UNCHANGED <<graceVars, kind, mem, cur, old, writing, guards, ver, status>>

\* clean: the load of borrow_count.
CleanLoadCount(h) ==
  /\ Running /\ At(h, "c_count")
  /\ pc' = [pc EXCEPT ![h].at = "c_next", ![h].bc = count]
  /\ UNCHANGED <<graceVars, slotVars>>

\* clean: the load of list.next, and the test.
CleanLoadNext(h) ==
  /\ Running /\ At(h, "c_next")
  /\ pc' = IF pc[h].bc = 0 /\ mem[HeadSlot].next # Null
           THEN [pc EXCEPT ![h].at = "c_copy", ![h].nx = mem[HeadSlot].next]
           ELSE [pc EXCEPT ![h] = IdlePc]
  /\ UNCHANGED <<graceVars, slotVars>>

\* clean: the head's value goes to the buffer, the node's value to the head.
CleanCopy(h) ==
  /\ Running /\ At(h, "c_copy")
  /\ mem' = [mem EXCEPT ![HeadSlot].val = mem[pc[h].nx].val]
  /\ ver' = ver + 1
  /\ pc' = [pc EXCEPT ![h].at = "c_swap", ![h].buf = mem[HeadSlot].val]
  /\ UNCHANGED <<graceVars, kind, cur, old, count, writing, hs, refs, guards, status>>

\* clean: list.next is swapped with null; what it held will be freed.
CleanSwap(h) ==
  /\ Running /\ At(h, "c_swap")
  /\ mem' = [mem EXCEPT ![HeadSlot].next = Null]
  /\ pc' = [pc EXCEPT ![h].at = "c_free", ![h].tofree = mem[HeadSlot].next]
  /\ UNCHANGED <<graceVars, kind, cur, old, count, writing, hs, refs, guards, ver, status>>

\* clean: the buffer goes into the node, and the box is dropped.  A box made
\* from a null pointer (two cleans collapsed at once) is undefined behaviour.
CleanFreeOutcomes(h) == IF pc[h].tofree = Null THEN {"crash", "noop"} ELSE {"ok"}

CleanFree(h) ==
  /\ Running /\ At(h, "c_free")
  /\ mem' = Free([mem EXCEPT ![pc[h].nx].val = pc[h].buf], Chain(pc[h].tofree))
  /\ \E o \in CleanFreeOutcomes(h) : status' = IF o = "crash" THEN "crash" ELSE "run"
  /\ pc' = [pc EXCEPT ![h] = IdlePc]
  /\ UNCHANGED <<graceVars, kind, cur, old, count, writing, hs, refs, guards, ver>>

InitArc == NoRcu /\ NewSlot("ArcRcu", 0)

NextArc ==
  \/ \E h \in Handles : DerefCount(h)
  \/ \E h \in Handles : DerefLoad(h)
  \/ \E h \in Handles : DerefRef(h)
  \/ \E h \in Handles : CleanCount(h)
  \/ \E h \in Handles : CleanLoadCount(h)
  \/ \E h \in Handles : CleanLoadNext(h)
  \/ \E h \in Handles : CleanCopy(h)
  \/ \E h \in Handles : CleanSwap(h)
  \/ \E h \in Handles : CleanFree(h)
  \/ \E h \in Handles : Idle(h) /\ Clone(h)
  \/ \E h \in Handles : Idle(h) /\ Update(h)
  \/ \E h \in Handles : Idle(h) /\ UpdatePanics(h)
  \/ \E g \in guards, v \in Values : Idle(g.h) /\ Mutate(g, v)
  \/ \E g \in guards : Idle(g.h) /\ Release(g)
  \/ \E h \in Handles : Idle(h) /\ DropHandle(h)

SpecArc == InitArc /\ [][NextArc]_vars

\* ---- both chain containers: RcRcu by whole calls (one thread), ArcRcu
\* with one thread per handle.
InitWriters == NoRcu /\ \E k \in ChainKinds : NewSlot(k, 0)

NextWriters ==
  \/ kind = "RcRcu" /\ Next
  \/ kind = "ArcRcu" /\ NextArc

SpecWriters == InitWriters /\ [][NextWriters]_vars

\* ============================================= Part 3: graceful::Rcu and Grace
\* One Rcu, alive throughout; Grace objects made and dropped by its users;
\* threads that run update, taken one access to shared state at a time.
\* A grace period's vector (Arc<Mutex<Vec<Arc<dyn ..>>>>) is a record with
\* its strong count rc and its elements: retired values and links to later
\* vectors.  Indices start at 1; 0 is no index.
MaxGraces == 2
MaxUpdates == 2
MaxGuards == 1

\* No container of Parts 1 and 2 exists.
NoSlot ==
  /\ kind = "none"
  /\ mem = [a \in {HeadSlot} \cup Addrs |-> Unalloc]
  /\ cur = Null /\ old = <<>> /\ count = 0 /\ writing = FALSE
  /\ hs = [h \in Handles |-> [st |-> "none", flag |-> FALSE]]
  /\ refs = [h \in Handles |-> {}]
  /\ guards = {} /\ ver = 0 /\ status = "run"
  /\ pc = [h \in Handles |-> IdlePc]

EmptyVec == [rc |-> 1, vec |-> <<>>, st |-> "live"]

\* One Arc of a value is dropped: the value is freed with its last Arc.
ArcRelease(x) ==
  IF x.rc > 1 THEN [x EXCEPT !.rc = @ - 1] ELSE [x EXCEPT !.rc = 0, !.st = "freed"]
ValEntry(v) == [k |-> "val", id |-> v]
GenEntry(n) == [k |-> "gen", id |-> n]

\* Dropping one Arc of vector i: the count goes down, and at zero the vector
\* is dropped with its elements, in order: a retired value is freed, a link
\* is one Arc of the vector it names.  gv is the pair [gens, gvals].
RECURSIVE DropArc(_, _)
RECURSIVE DropVec(_, _)
DropArc(gv, i) ==
  IF gv.gens[i].rc > 1
  THEN [gv EXCEPT !.gens[i].rc = @ - 1]
  ELSE DropVec([gv EXCEPT !.gens[i].rc = 0, !.gens[i].st = "freed"], gv.gens[i].vec)

DropVec(gv, vec) ==
  IF vec = <<>> THEN gv
  ELSE DropVec(IF Head(vec).k = "val"
               THEN [gv EXCEPT !.gvals[Head(vec).id] = ArcRelease(@)]
               ELSE DropArc(gv, Head(vec).id),
               Tail(vec))

Heap == [gens |-> gens, gvals |-> gvals]

\* Grace::new: GRACE is initialised on first use, its mutex is taken, and
\* the Arc it holds is cloned.
GraceInited == IF gens = <<>> THEN <<EmptyVec>> ELSE gens
GraceCurrent == IF gens = <<>> THEN 1 ELSE gcur

\* A Grace that holds no Arc of its vector.
GraceNewGensUncounted == GraceInited

GraceNewGens == [GraceInited EXCEPT ![GraceCurrent].rc = @ + 1]
GraceNewObj(tmp) == [gen |-> GraceCurrent, st |-> "live", tmp |-> tmp]

UserGraces == {i \in DOMAIN graces : ~graces[i].tmp}
TmpGraces == {i \in DOMAIN graces : graces[i].tmp}

GraceNew ==
  /\ glock = 0
  /\ Cardinality(UserGraces) < MaxGraces
  /\ gens' = GraceNewGens
  /\ gcur' = GraceCurrent
  /\ graces' = Append(graces, GraceNewObj(FALSE))
  /\ UNCHANGED <<slotVars, pc, glock, gvals, rcu, rst, cptr, rguards, upc>>

\* Rcu::read under grace i: a load of the pointer.
UserGuards == {r \in rguards : ~graces[r.g].tmp}

\* A read that returns what the grace saw first.
ReadTargetSnapshot(i) ==
  IF \E v \in DOMAIN gvals : i \in gvals[v].readers
  THEN CHOOSE v \in DOMAIN gvals :
         i \in gvals[v].readers /\ \A w \in DOMAIN gvals : i \in gvals[w].readers => v <= w
  ELSE rcu

\* self.0.load(Acquire): the grace plays no part.
ReadTarget(i) == rcu

Read(i) ==
  /\ i \in UserGraces /\ graces[i].st = "live"
  /\ Cardinality(UserGuards) < MaxGuards
  /\ rguards' = rguards \cup {[g |-> i, v |-> ReadTarget(i)]}
  /\ gvals' = [gvals EXCEPT ![ReadTarget(i)].readers = @ \cup {i}]
  /\ UNCHANGED <<slotVars, pc, gens, gcur, glock, graces, rcu, rst, cptr, upc>>

\* An RcuGuard goes out of scope.
RcuGuardDrop(r) ==
  /\ r \in rguards /\ ~graces[r.g].tmp
  /\ rguards' = rguards \ {r}
  /\ UNCHANGED <<slotVars, pc, gens, gcur, glock, graces, gvals, rcu, rst, cptr, upc>>

\* A Grace is dropped; the guards made under it cannot outlive it.
GraceDrop(i) ==
  /\ i \in UserGraces /\ graces[i].st = "live"
  /\ \A r \in rguards : r.g # i
  /\ gens' = DropArc(Heap, graces[i].gen).gens
  /\ gvals' = DropArc(Heap, graces[i].gen).gvals
  /\ graces' = [graces EXCEPT ![i].st = "dropped"]
  /\ UNCHANGED <<slotVars, pc, gcur, glock, rcu, rst, cptr, rguards, upc>>

\* ---- Rcu::update, thread u
UAt(u, l) == upc[u].at = l

\* Grace::new() for the copy.
UpdGrace(u) ==
  /\ UAt(u, "idle")
  /\ Cardinality(TmpGraces) < MaxUpdates
  /\ glock = 0
  /\ gens' = GraceNewGens
  /\ gcur' = GraceCurrent
  /\ graces' = Append(graces, GraceNewObj(TRUE))
  /\ upc' = [upc EXCEPT ![u].at = "load", ![u].g = Len(graces) + 1]
  /\ UNCHANGED <<slotVars, pc, glock, gvals, rcu, rst, cptr, rguards>>

\* self.read(..): the load of the pointer.
UpdLoad(u) ==
  /\ UAt(u, "load")
  /\ rguards' = rguards \cup {[g |-> upc[u].g, v |-> rcu]}
  /\ gvals' = [gvals EXCEPT ![rcu].readers = @ \cup {upc[u].g}]
  /\ upc' = [upc EXCEPT ![u].at = "clone", ![u].p = rcu]
  /\ UNCHANGED <<slotVars, pc, gens, gcur, glock, graces, rcu, rst, cptr>>

\* Arc::new(..clone()) and f: the new value, which the closure sets to v.
UpdClone(u, v) ==
  /\ UAt(u, "clone")
  /\ gvals' = Append(gvals, [st |-> "live", rc |-> 1, val |-> v, readers |-> {}])
  /\ upc' = [upc EXCEPT ![u].at = "ungrace", ![u].new = Len(gvals) + 1]
  /\ UNCHANGED <<slotVars, pc, gens, gcur, glock, graces, rcu, rst, cptr, rguards>>

\* The end of the statement: the guard and the temporary Grace are dropped.
UpdDropGrace(u) ==
  /\ UAt(u, "ungrace")
  /\ rguards' = rguards \ {[g |-> upc[u].g, v |-> upc[u].p]}
  /\ gens' = DropArc(Heap, graces[upc[u].g].gen).gens
  /\ gvals' = DropArc(Heap, graces[upc[u].g].gen).gvals
  /\ graces' = [graces EXCEPT ![upc[u].g].st = "dropped"]
  /\ upc' = [upc EXCEPT ![u].at = "lock"]
  /\ UNCHANGED <<slotVars, pc, gcur, glock, rcu, rst, cptr>>

\* A publish section that does not wait for the mutex of GRACE.
UpdLockFree(u) ==
  /\ UAt(u, "lock")
  /\ glock' = u
  /\ upc' = [upc EXCEPT ![u].at = "swap"]
  /\ UNCHANGED <<slotVars, pc, gens, gcur, graces, gvals, rcu, rst, cptr, rguards>>

\* The mutex of GRACE, and inside it the mutex of the current vector.
UpdLock(u) ==
  /\ UAt(u, "lock")
  /\ glock = 0
  /\ glock' = u
  /\ upc' = [upc EXCEPT ![u].at = "swap"]
  /\ UNCHANGED <<slotVars, pc, gens, gcur, graces, gvals, rcu, rst, cptr, rguards>>

\* self.0.swap(new).
UpdSwap(u) ==
  /\ UAt(u, "swap")
  /\ rcu' = upc[u].new
  /\ upc' = [upc EXCEPT ![u].at = "push", ![u].old = rcu]
  /\ UNCHANGED <<slotVars, pc, gens, gcur, glock, graces, gvals, rst, cptr, rguards>>

\* vec_lock.push(old).
UpdPush(u) ==
  /\ UAt(u, "push")
  /\ gens' = [gens EXCEPT ![gcur].vec = Append(@, ValEntry(upc[u].old))]
  /\ upc' = [upc EXCEPT ![u].at = "link"]
  /\ UNCHANGED <<slotVars, pc, gcur, glock, graces, gvals, rcu, rst, cptr, rguards>>

\* A vector that is not tied to the next one.
Unlinked(gs, from) == Append(gs, EmptyVec)

\* A next vector with an Arc too many.
LinkedKept(gs, from) ==
  Append([gs EXCEPT ![from].vec = Append(@, GenEntry(Len(gs) + 1))],
         [EmptyVec EXCEPT !.rc = 3])

\* A link that is kept in the next vector and names the current one.
LinkedBack(gs, from) ==
  Append(gs, [EmptyVec EXCEPT !.vec = <<GenEntry(from)>>])

\* A link that holds no count of the next vector.
LinkedUncounted(gs, from) ==
  Append([gs EXCEPT ![from].vec = Append(@, GenEntry(Len(gs) + 1))],
         [EmptyVec EXCEPT !.rc = 1])

\* next_grace is made, and a clone of it is pushed onto the current vector.
Linked(gs, from) ==
  Append([gs EXCEPT ![from].vec = Append(@, GenEntry(Len(gs) + 1))],
         [EmptyVec EXCEPT !.rc = 2])

UpdLink(u) ==
  /\ UAt(u, "link")
  /\ gens' = Linked(gens, gcur)
  /\ upc' = [upc EXCEPT ![u].at = "install", ![u].next = Len(gens) + 1]
  /\ UNCHANGED <<slotVars, pc, gcur, glock, graces, gvals, rcu, rst, cptr, rguards>>

\* An update that returns with the mutex of GRACE still locked.
UpdInstallLocked(u) ==
  /\ UAt(u, "install")
  /\ gens' = DropArc(Heap, gcur).gens
  /\ gvals' = DropArc(Heap, gcur).gvals
  /\ gcur' = upc[u].next
  /\ upc' = [upc EXCEPT ![u] = IdleUpc]
  /\ UNCHANGED <<slotVars, pc, glock, graces, rcu, rst, cptr, rguards>>

\* *lock = next_grace: GRACE lets go of the old vector; the mutex is released.
UpdInstall(u) ==
  /\ UAt(u, "install")
  /\ gens' = DropArc(Heap, gcur).gens
  /\ gvals' = DropArc(Heap, gcur).gvals
  /\ gcur' = upc[u].next
  /\ glock' = 0
  /\ upc' = [upc EXCEPT ![u] = IdleUpc]
  /\ UNCHANGED <<slotVars, pc, graces, rcu, rst, cptr, rguards>>

\* Rcu::new(0); GRACE is not initialised yet.
InitGrace ==
  /\ NoSlot
  /\ gens = <<>> /\ gcur = 0 /\ glock = 0
  /\ graces = <<>>
  /\ gvals = <<[st |-> "live", rc |-> 1, val |-> 0, readers |-> {}]>>
  /\ rcu = 1
  /\ rst = [x \in RcuIds |-> IF x = 0 THEN "live" ELSE "none"]
  /\ cptr = [x \in CloneIds |-> 0]
  /\ rguards = {}
  /\ upc = [u \in Updaters |-> IdleUpc]

NextGrace ==
  \/ GraceNew
  \/ \E i \in DOMAIN graces : Read(i)
  \/ \E r \in rguards : RcuGuardDrop(r)
  \/ \E i \in DOMAIN graces : GraceDrop(i)
  \/ \E u \in Updaters : UpdGrace(u)
  \/ \E u \in Updaters : UpdLoad(u)
  \/ \E u \in Updaters, v \in Values : UpdClone(u, v)
  \/ \E u \in Updaters : UpdDropGrace(u)
  \/ \E u \in Updaters : UpdLock(u)
  \/ \E u \in Updaters : UpdSwap(u)
  \/ \E u \in Updaters : UpdPush(u)
  \/ \E u \in Updaters : UpdLink(u)
  \/ \E u \in Updaters : UpdInstall(u)

SpecGrace == InitGrace /\ [][NextGrace]_vars

\* ---- updates whose closure adds one to the value it is given
UpdIncrement(u) ==
  /\ UAt(u, "clone")
  /\ UpdClone(u, gvals[upc[u].p].val + 1)

NextIncr ==
  \/ \E u \in Updaters : UpdGrace(u)
  \/ \E u \in Updaters : UpdLoad(u)
  \/ \E u \in Updaters : UpdIncrement(u)
  \/ \E u \in Updaters : UpdDropGrace(u)
  \/ \E u \in Updaters : UpdLock(u)
  \/ \E u \in Updaters : UpdSwap(u)
  \/ \E u \in Updaters : UpdPush(u)
  \/ \E u \in Updaters : UpdLink(u)
  \/ \E u \in Updaters : UpdInstall(u)
  \/ GraceNew
  \/ \E i \in DOMAIN graces : GraceDrop(i)

SpecIncr == InitGrace /\ [][NextIncr]_vars

\* ---- the same under a fair scheduler: a thread inside update that can
\* take its next step takes it; a waiting lock() returns once the mutex
\* stays free.  Calling update, Grace::new and dropping a Grace are the
\* caller's choice and carry no fairness.
UpdateStep(u) ==
  \/ UpdLoad(u)
  \/ UpdIncrement(u)
  \/ UpdDropGrace(u)
  \/ UpdLock(u)
  \/ UpdSwap(u)
  \/ UpdPush(u)
  \/ UpdLink(u)
  \/ UpdInstall(u)

\* vec_lock lives from lock.lock() to drop(vec_lock).
VecLockHeld(u) == UAt(u, "swap") \/ UAt(u, "push") \/ UAt(u, "link")

SpecIncrFair ==
  InitGrace /\ [][NextIncr]_vars /\ \A u \in Updaters : WF_vars(UpdateStep(u))

\* ---- the Rcu handles: clone, drop, and read through any of them
Ptr(x) == IF x = 0 THEN rcu ELSE cptr[x]
WithPtr(x, p) ==
  /\ rcu' = IF x = 0 THEN p ELSE rcu
  /\ cptr' = IF x = 0 THEN cptr ELSE [cptr EXCEPT ![x] = p]
NewRcu == CHOOSE y \in CloneIds : rst[y] = "none" /\ \A z \in CloneIds : rst[z] = "none" => y <= z

\* Arc::from_raw of a null pointer, or a reference made from one, and its
\* use: an access through an address no allocation has.
Wild ==
  /\ status' = "crash"
  /\ UNCHANGED <<kind, mem, cur, old, count, writing, hs, refs, guards, ver, pc, graceVars>>

\* Rcu::clone on x: the pointer of x is swapped for null, the Arc made from
\* what it held is cloned, one Arc is turned back into a raw pointer that is
\* stored nowhere, the other becomes the pointer of the new Rcu.
RcuClone(x) ==
  /\ Running /\ rst[x] = "live"
  /\ \E y \in CloneIds : rst[y] = "none"
  /\ IF Ptr(x) = 0 THEN Wild
     ELSE /\ gvals' = [gvals EXCEPT ![Ptr(x)].rc = @ + 1]
          /\ rcu' = IF x = 0 THEN 0 ELSE rcu
          /\ cptr' = [y \in CloneIds |-> IF y = NewRcu THEN Ptr(x) ELSE IF y = x THEN 0 ELSE cptr[y]]
          /\ rst' = [rst EXCEPT ![NewRcu] = "live"]
          /\ UNCHANGED <<slotVars, pc, gens, gcur, glock, graces, rguards, upc>>

\* Rcu::drop on x: the pointer is swapped for null and the Arc made from what
\* it held is dropped.  A guard borrows its Rcu: the model drops an Rcu when
\* no guard is out.
RcuDrop(x) ==
  /\ Running /\ rst[x] = "live"
  /\ rguards = {}
  /\ IF Ptr(x) = 0 THEN Wild
     ELSE /\ gvals' = [gvals EXCEPT ![Ptr(x)] = ArcRelease(@)]
          /\ WithPtr(x, 0)
          /\ rst' = [rst EXCEPT ![x] = "dropped"]
          /\ UNCHANGED <<slotVars, pc, gens, gcur, glock, graces, rguards, upc>>

\* Rcu::read on x under grace i, and the use of the reference it returns.
RcuRead(x, i) ==
  /\ Running /\ rst[x] = "live"
  /\ i \in UserGraces /\ graces[i].st = "live"
  /\ Cardinality(UserGuards) < MaxGuards
  /\ IF Ptr(x) = 0 THEN Wild
     ELSE /\ rguards' = rguards \cup {[g |-> i, v |-> Ptr(x)]}
          /\ gvals' = [gvals EXCEPT ![Ptr(x)].readers = @ \cup {i}]
          /\ UNCHANGED <<slotVars, pc, gens, gcur, glock, graces, rcu, rst, cptr, upc>>

NextClone ==
  \/ Running /\ GraceNew
  \/ \E x \in RcuIds, i \in DOMAIN graces : RcuRead(x, i)
  \/ \E r \in rguards : Running /\ RcuGuardDrop(r)
  \/ \E i \in DOMAIN graces : Running /\ GraceDrop(i)
  \/ \E x \in RcuIds : RcuClone(x)
  \/ \E x \in RcuIds : RcuDrop(x)

SpecClone == InitGrace /\ [][NextClone]_vars

\* ---- one BoxCellSync shared by reference between threads; thread t uses
\* pc[t] and refs[t].  update and the guard's drop, step by step.
Threads == Handles
InCall(t) == At(t, "s_lock")

\* A deref that takes the mutex around old first.
SyncDerefLocked(t) ==
  /\ Running /\ ~InCall(t)
  /\ guards = {}
  /\ refs' = [refs EXCEPT ![t] = @ \cup {RefTo(cur)}]
  /\ UNCHANGED <<pc, graceVars, kind, mem, cur, old, count, writing, hs, guards, ver, status>>

\* deref: a load of current.
SyncDeref(t) ==
  /\ Running /\ ~InCall(t)
  /\ refs' = [refs EXCEPT ![t] = @ \cup {RefTo(cur)}]
  /\ UNCHANGED <<pc, graceVars, kind, mem, cur, old, count, writing, hs, guards, ver, status>>

\* update, first field of the guard: Box::new((*self).clone()).
SyncCopy(t) ==
  /\ Running /\ Idle(t)
  /\ HasFresh(1)
  /\ mem' = [mem EXCEPT ![Fresh(1)] = PrivateCopy]
  /\ pc' = [pc EXCEPT ![t].at = "s_lock", ![t].buf = Fresh(1)]
  /\ UNCHANGED <<graceVars, kind, cur, old, count, writing, hs, refs, guards, ver, status>>

\* update, last field of the guard: self.old.lock(); it waits for the mutex.
SyncLock(t) ==
  /\ Running /\ At(t, "s_lock")
  /\ guards = {}
  /\ guards' = {[h |-> t, a |-> pc[t].buf]}
  /\ pc' = Goto(t, "s_write")
  /\ UNCHANGED <<graceVars, kind, mem, cur, old, count, writing, hs, refs, ver, status>>

\* The caller's use of the guard: *guard += 1.
SyncIncrement(t) ==
  /\ Running /\ At(t, "s_write")
  /\ mem' = [mem EXCEPT ![pc[t].buf].val = @ + 1]
  /\ pc' = Goto(t, "s_drop")
  /\ UNCHANGED <<graceVars, kind, cur, old, count, writing, hs, refs, guards, ver, status>>

\* BoxGuard::drop: the swap, the push, and the mutex guard's own drop.
SyncRelease(t) ==
  /\ Running /\ At(t, "s_drop")
  /\ mem' = CellGuardDrop([h |-> t, a |-> pc[t].buf]).mem
  /\ cur' = CellGuardDrop([h |-> t, a |-> pc[t].buf]).cur
  /\ old' = CellGuardDrop([h |-> t, a |-> pc[t].buf]).old
  /\ guards' = {}
  /\ pc' = [pc EXCEPT ![t] = IdlePc]
  /\ UNCHANGED <<graceVars, kind, count, writing, hs, refs, ver, status>>

InitSync == NoRcu /\ \E v \in Values : NewSlot("BoxCellSync", v)

NextSync ==
  \/ \E t \in Threads : SyncDeref(t)
  \/ \E t \in Threads : SyncCopy(t)
  \/ \E t \in Threads : SyncLock(t)
  \/ \E t \in Threads : SyncIncrement(t)
  \/ \E t \in Threads : SyncRelease(t)

SpecSync == InitSync /\ [][NextSync]_vars

\* ---- one ArcRcu handle (handle 1) used by several threads through a shared
\* reference, which unsafe impl Sync allows.  deref step by step; thread t
\* keeps the flag it read in pc[t].buf.
AllIdle == \A t \in Threads : Idle(t)

\* deref: let aleady_borrowed = self.have_borrowed.get().
ShFlag(t) ==
  /\ Running /\ Idle(t) /\ Live(1)
  /\ count <= MaxHandles
  /\ pc' = [pc EXCEPT ![t].at = IF hs[1].flag THEN "sh_load" ELSE "sh_add",
                       ![t].buf = IF hs[1].flag THEN 1 ELSE 0]
  /\ UNCHANGED <<graceVars, kind, mem, cur, old, count, writing, hs, refs, guards, ver, status>>

\* deref: borrow_count.fetch_add(1).
ShAdd(t) ==
  /\ Running /\ At(t, "sh_add")
  /\ count' = count + 1
  /\ pc' = Goto(t, "sh_set")
  /\ UNCHANGED <<graceVars, kind, mem, cur, old, writing, hs, refs, guards, ver, status>>

\* deref: have_borrowed.set(true).
ShSet(t) ==
  /\ Running /\ At(t, "sh_set")
  /\ hs' = [hs EXCEPT ![1].flag = TRUE]
  /\ pc' = Goto(t, "sh_load")
  /\ UNCHANGED <<graceVars, kind, mem, cur, old, count, writing, refs, guards, ver, status>>

\* deref: the load of list.next and the reference.
ShLoad(t) ==
  /\ Running /\ At(t, "sh_load")
  /\ refs' = [refs EXCEPT ![1] = @ \cup {RefTo(Target)}]
  /\ pc' = [pc EXCEPT ![t] = IdlePc]
  /\ UNCHANGED <<graceVars, kind, mem, cur, old, count, writing, hs, guards, ver, status>>

\* clean and update take the handle when no thread is inside deref (clean
\* needs &mut self).
NextShared ==
  \/ \E t \in Threads : ShFlag(t)
  \/ \E t \in Threads : ShAdd(t)
  \/ \E t \in Threads : ShSet(t)
  \/ \E t \in Threads : ShLoad(t)
  \/ AllIdle /\ Clean(1)
  \/ AllIdle /\ Update(1)
  \/ \E g \in guards, v \in Values : AllIdle /\ Mutate(g, v)
  \/ \E g \in guards : AllIdle /\ Release(g)

SpecShared == InitArc /\ [][NextShared]_vars

\* ---- every container: the single-threaded ones by whole calls, BoxCellSync
\* by the steps of its threads, graceful by the steps of its updates.
InitReads ==
  \/ NoRcu /\ \E k \in AllKinds \ {"BoxCellSync"} : NewSlot(k, 0)
  \/ InitSync
  \/ InitGrace

NextReads ==
  \/ kind \notin {"none", "BoxCellSync"} /\ Next
  \/ kind = "BoxCellSync" /\ NextSync
  \/ kind = "none" /\ NextGrace

SpecReads == InitReads /\ [][NextReads]_vars

\* ============================================================ the properties
\* C1: graceful::Rcu: a value that read returned under a Grace g is not
\* freed while g is alive, whatever updates follow on the Rcu from whatever
\* thread: a value is freed only when g, and every Grace created before g,
\* has been dropped, for every g it was read under.
C1_GracePeriod ==
  /\ \A r \in rguards : gvals[r.v].st = "live"
  /\ \A v \in DOMAIN gvals :
       gvals[v].st = "freed" =>
         \A g \in gvals[v].readers : \A e \in 1..g : graces[e].st = "dropped"

\* One value read under a Grace has been freed after that Grace was dropped,
\* while another, read under a later Grace that is still alive, has been
\* replaced by an update and is kept.
C1_Witness ==
  /\ \E v \in DOMAIN gvals : \E g \in gvals[v].readers \cap UserGraces :
       gvals[v].st = "freed"
  /\ \E v \in DOMAIN gvals : \E g \in gvals[v].readers \cap UserGraces :
       v # rcu /\ gvals[v].st = "live" /\ graces[g].st = "live"

AllRefs == UNION {refs[h] : h \in Handles}
RefsOk == \A r \in AllRefs : RefOk(r)
Published(g) == DerefVal' = mem[g.a].val

\* One step of C2's property.
C2_Step ==
  /\ \A g \in guards : Release(g) => Published(g)
  /\ \A r \in refs[1] \cap refs'[1] : RefOk(r)' /\ mem'[r.a].val = mem[r.a].val

\* C2: in every exclusive container (BoxCell of lib.rs and of boxcell.rs,
\* BoxCellSync, BoxRcu/BoxNew), right after a guard holding V is released
\* deref returns V, and a reference that deref returned earlier still points
\* to its unfreed, unchanged value for as long as no clean has ended it.
C2_ReleasePublishes == [][C2_Step]_vars

\* A reference to a displaced value that differs from the published one.
C2_Witness ==
  /\ kind \in ExclKinds /\ guards = {}
  /\ \E r \in refs[1] : r.a # Target /\ RefOk(r) /\ mem[r.a].val # DerefVal

\* One step of C3's property.
C3_Step ==
  kind \in {"RcCell", "RcCellLib", "RcRcu", "ArcRcu"} =>
    /\ \A h \in Handles : Clone(h) => hs'[NewHandle].st = "live" /\ DerefVal' = DerefVal
    /\ \A g \in guards : Release(g) => Published(g)

\* C3: in RcCell, RcRcu and ArcRcu/ArcNew a clone leaves what deref returns
\* as it is (the original and the clone read the same slot), and after a
\* guard obtained through any handle is released, deref, through every
\* handle of the slot, returns the value the guard held.
C3_SharedVisible == [][C3_Step]_vars

\* Two live handles, and a released update that changed the published value.
C3_Witness ==
  /\ kind \in {"RcCell", "RcCellLib", "RcRcu", "ArcRcu"}
  /\ Cardinality({h \in Handles : Live(h)}) >= 2
  /\ guards = {} /\ DerefVal = 1

\* One step of C4's property.
C4_Step ==
  /\ \A h \in Handles : Update(h) => DerefVal' = DerefVal /\ mem'[GuardAddr].val = DerefVal
  /\ \A g \in guards, v \in Values :
       Mutate(g, v) => DerefVal' = DerefVal /\ mem'[g.a].val = v
  /\ \A g \in guards : Release(g) => Published(g)

\* C4: update scoping.  While a guard is outstanding, creating it and writing
\* to its private copy leave what deref on the container returns unchanged,
\* and the guard reads back what was written; right after its release deref
\* on the container returns the guard's final value.
C4_UpdateScoping == [][C4_Step]_vars

\* A guard whose private copy differs from the published value.
C4_Witness == \E g \in guards : mem[g.a].val # DerefVal

\* C5: RcCell (rccell.rs) and RcRcu: no value is freed, and no head value is
\* overwritten by a collapse, while a reference deref returned through some
\* handle may be live (that handle has not called clean since).
C5_NoDangling == kind \in {"RcCell", "RcRcu"} => RefsOk

\* A reference to a displaced value survives a clean through another handle,
\* which has released its own borrow.
C5_Witness ==
  /\ kind \in {"RcCell", "RcRcu"} /\ guards = {}
  /\ \E h \in Handles : \E r \in refs[h] : r.a # Target
  /\ \E k \in Handles : Live(k) /\ ~hs[k].flag /\ refs[k] = {} /\ count >= 1

\* C6: ArcRcu with handles owned by different threads: under every
\* interleaving of the steps of clean with the steps of another handle's
\* deref, no reader holds a pointer to freed or overwritten memory, neither
\* a reference deref has returned nor the pointer a deref in flight loaded.
C6_ReadersSafe ==
  /\ RefsOk
  /\ \A h \in Handles : At(h, "d_ref") => mem[LoadedTarget(h)].st = "live"

\* C7: ArcCell of lib.rs: every reference deref returned stays valid until
\* the handle it came through calls clean, also when handles were cloned
\* from a handle that had already been dereferenced.
C7_ArcCellRefsValid == kind = "ArcCellLib" => RefsOk

\* One step of C8's property.
C8_Step ==
  \A h \in Handles :
    Clone(h) => /\ hs'[NewHandle] = [st |-> "live", flag |-> FALSE]
                /\ hs'[h] = hs[h]
                /\ count' = count

\* C8: in every shared container (the ArcCell of lib.rs included) clone
\* gives the new handle a cleared have_borrowed flag and leaves the source
\* handle's flag and the shared borrow_count as they were.
C8_CloneUnflagged == [][C8_Step]_vars

\* The handles that are alive with their flag set.
Flagged == {h \in Handles : Live(h) /\ hs[h].flag}

\* C9: RcCell (rccell.rs) and RcRcu: borrow_count equals the number of live
\* handles whose have_borrowed flag is set, whatever derefs, updates, clones,
\* cleans and handle drops have happened.
C9_CountIsFlagged ==
  (kind \in {"RcCell", "RcRcu"} /\ SlotLive) => count = Cardinality(Flagged)

\* One step of C10's property.
C10_Step ==
  kind \in {"RcCell", "RcCellLib", "RcRcu", "ArcRcu"} =>
    /\ \A h \in Handles :
         (Deref(h) \/ Update(h)) =>
           hs'[h].flag /\ count' = (IF hs[h].flag THEN count ELSE count + 1)
    /\ \A h \in Handles :
         (hs[h].flag /\ ~hs'[h].flag) => Clean(h) /\ count' = count - 1
    /\ count' < count => \E h \in Handles : hs[h].flag /\ Clean(h)

\* C10: RcCell, RcRcu and ArcRcu used from one thread: the first deref
\* through a handle (the deref inside update included) sets its flag and
\* increments borrow_count by one, later ones change neither, and the flag is
\* cleared and the count decremented only by a clean through that handle.
C10_CountOncePerHandle == [][C10_Step]_vars

\* A handle with two references and a guard behind one increment.
C10_Witness ==
  /\ kind \in {"RcCell", "RcCellLib", "RcRcu", "ArcRcu"}
  /\ \E h \in Handles :
       Cardinality(refs[h]) >= 2 /\ GuardsOf(h) # {} /\ hs[h].flag /\ count = 1

\* One step of C11's property.
C11_Step ==
  \A h \in Handles :
    Clean(h) => /\ status' = "run"
                /\ DerefVal' = DerefVal
                /\ mem[Target].st = "live" => mem'[Target'].st = "live"
                /\ cur' = cur

\* C11: in every container a clean returns, does not free the current value
\* and does not change what deref returns, whether it reclaimed nothing,
\* emptied the retirement vector or collapsed the version chain.
C11_CleanKeepsCurrent == [][C11_Step]_vars

\* Another live handle of the slot has its flag set.
OtherBorrowed(h) == \E k \in Handles \ {h} : Live(k) /\ hs[k].flag

\* One step of C12's property.
C12_Step ==
  \A h \in Handles :
    (Clean(h) /\ OtherBorrowed(h)) =>
      /\ status' = "run"
      /\ mem' = mem /\ old' = old /\ cur' = cur /\ ver' = ver
      /\ hs' = ClearFlag(h)
      /\ count' = IF hs[h].flag THEN count - 1 ELSE count

\* C12: RcCell, RcRcu and ArcRcu: a clean through one handle while another
\* live handle of the slot has its flag set raises no error and leaves the
\* retirement vector, the version chain and the published value as they
\* were; it clears this handle's flag and takes this handle's unit off the
\* count, nothing else.
C12_StaleCleanNoop == [][C12_Step]_vars

\* A handle with its flag clear beside a flagged one whose reference points
\* to a displaced value, which is still retained.
C12_Witness ==
  /\ kind \in TrackedKinds /\ guards = {} /\ count = 1
  /\ \E h \in Handles : Live(h) /\ ~hs[h].flag /\ OtherBorrowed(h)
  /\ \E k \in Handles : \E r \in refs[k] : r.a # Target /\ RefOk(r)
  /\ old # <<>> \/ mem[HeadSlot].next # Null

\* A clean through h that C13 speaks of: any clean of a BoxCell or a
\* BoxCellSync, and a clean of an RcCell that takes the count to zero.
ReclaimingClean(h) ==
  \/ kind \in {"BoxCellLib", "BoxCell", "BoxCellSync"}
  \/ kind \in {"RcCell", "RcCellLib"} /\ hs[h].flag /\ count = 1

\* One step of C13's property.
C13_Step ==
  \A h \in Handles :
    (Clean(h) /\ ReclaimingClean(h)) =>
      /\ status' = "run"
      /\ old' = <<>>
      /\ \A a \in Range(old) : mem[a].st = "live" /\ mem'[a].st = "freed"

\* C13: every clean of a BoxCell or BoxCellSync, and every clean of an RcCell
\* that brings borrow_count to zero, frees every retired value and leaves
\* the retirement vector empty.
C13_CleanReclaims == [][C13_Step]_vars

\* A live slot whose retired boxes have been freed and whose vector is empty.
C13_Witness ==
  /\ kind \in {"BoxCell", "BoxCellSync", "RcCell"} /\ SlotLive
  /\ old = <<>> /\ count = 0 /\ guards = {}
  /\ Cardinality({a \in Addrs : mem[a].st = "freed"}) >= 2

\* One step of C14's property: in the state a clean through h leaves, a
\* further clean through h has one outcome and changes nothing.
C14_Step ==
  \A h \in Handles :
    Clean(h) => (/\ Running => Live(h) /\ GuardsOf(h) = {}
                 /\ CleanOutcomes(h) = {"ok"}
                 /\ CleanResult(h, "ok") = Same
                 /\ refs[h] = {})'

\* C14: RcCell, RcRcu and ArcRcu: two cleans through the same handle with
\* nothing in between leave the state the first one left: the same flag,
\* count, retirement vector or chain and published value; the second call
\* frees nothing.
C14_CleanIdempotent == [][C14_Step]_vars

\* A clean has taken the count to zero and reclaimed (a collapsed chain, or
\* freed boxes), and the slot is still in use.
C14_Witness ==
  /\ kind \in TrackedKinds /\ SlotLive /\ count = 0 /\ guards = {}
  /\ \A h \in Handles : ~(Live(h) /\ hs[h].flag)
  /\ ver >= 1 \/ (old = <<>> /\ \E a \in Addrs : mem[a].st = "freed")

\* Handle h is the only handle the slot has ever had.
OnlyHandle(h) == Live(h) /\ \A k \in Handles \ {h} : hs[k].st = "none"

\* One step of C15's property.
C15_Step ==
  \A h \in Handles :
    (/\ Clean(h) /\ kind \in ChainKinds /\ OnlyHandle(h)
     /\ mem[HeadSlot].next # Null) =>
      /\ mem'[HeadSlot] = Cell(DerefVal, Null)
      /\ hs'[h] = [st |-> "live", flag |-> FALSE]
      /\ count' = 0 /\ writing' = FALSE /\ guards' = {} /\ status' = "run"
      /\ refs' = [k \in Handles |-> {}]
      /\ mem'[mem[HeadSlot].next] =
           [st |-> "freed", val |-> mem[HeadSlot].val, next |-> mem[mem[HeadSlot].next].next]
      /\ \A a \in Addrs : mem'[a].st \in {"freed", "unalloc"}

\* C15: RcRcu and ArcRcu with a single handle: new(v), an update that
\* publishes w, then clean leave the slot compact: forward link null, head
\* value w, flag false, count 0, am_writing false, and the displaced value v
\* freed with the node; apart from the freed node this is the state new(w)
\* constructs.
C15_RoundTrip == [][C15_Step]_vars

\* new(0), one update that published 1, clean.
C15_Witness ==
  /\ kind \in ChainKinds /\ OnlyHandle(1) /\ ver = 1 /\ Used = 1
  /\ mem[HeadSlot] = Cell(1, Null)
  /\ mem[1] = [st |-> "freed", val |-> 0, next |-> Null]
  /\ count = 0 /\ ~hs[1].flag /\ ~writing /\ guards = {}

\* The nodes other than the current one that are still allocated.
Displaced == {a \in Addrs : a # cur /\ mem[a].st = "live"}

\* One step of C16's property.
C16_Step ==
  \A h \in Handles :
    (Clean(h) /\ kind = "BoxRcu" /\ Displaced # {}) =>
      status' = "run" /\ Displaced' = {} /\ mem'[cur'].st = "live"

\* C16: BoxRcu and BoxNew: a clean after one or more updates frees the
\* copies those updates displaced, so that afterwards only the current
\* node is allocated.
C16_BoxRcuCleanFrees == [][C16_Step]_vars

\* One step of C17's property.
C17_Step ==
  kind \in ChainKinds =>
    /\ guards # {} => UpdateBlocked
    /\ \A h \in Handles : Update(h) => guards = {}
    /\ \A h \in Handles : UpdatePanics(h) => guards # {} /\ writing /\ vars' = vars
    /\ \A g \in guards : Release(g) => Published(g) /\ ~writing' /\ guards' = {}

\* C17: RcRcu, ArcRcu and ArcNew: an update called while a guard of the slot
\* is outstanding, through the same handle or a clone, panics; it creates no
\* second guard and leaves the published value, the chain, the outstanding
\* guard's private copy and am_writing (true) as they were, and the first
\* guard still publishes when it is released.
C17_DoubleUpdatePanics == [][C17_Step]_vars

\* A guard with a modified copy is outstanding while the slot has two live
\* handles: an update through either of them panics.
C17_Witness ==
  /\ kind \in ChainKinds /\ writing
  /\ Cardinality({h \in Handles : Live(h)}) >= 2
  /\ \E g \in guards : mem[g.a].val # DerefVal

\* The retirement vector holds each displaced box once, none of them freed,
\* and every box that is allocated is current, retired or a guard's copy.
RetiredOnce ==
  /\ \A i, j \in 1..Len(old) : old[i] = old[j] => i = j
  /\ \A a \in Range(old) : mem[a].st = "live" /\ a # cur
  /\ \A a \in Addrs : mem[a].st = "live" =>
       a = cur \/ a \in Range(old) \/ \E g \in guards : g.a = a

\* One step of C18's property.
C18_Step ==
  kind \in LibKinds =>
    /\ \A g \in guards :
         Release(g) => /\ Published(g)
                       /\ old' = Append(old, cur)
                       /\ mem'[cur] = mem[cur]
                       /\ \A k \in guards' : mem'[k.a] = mem[k.a]
    /\ RetiredOnce'

\* C18: BoxCell, RcCell and ArcCell of lib.rs: with two guards outstanding
\* at once, each release publishes the released guard's value, so the one
\* released last wins, and each release puts the value it displaces into
\* the retirement vector, once, neither leaked nor freed.
C18_LastWriterWins == [][C18_Step]_vars

\* Two guards were taken one after the other (boxes 2 and 3) and released
\* (clones 4 and 5) with different values: the second release's value is
\* published, the initial value and the first release's value are retired.
C18_Witness ==
  /\ kind \in LibKinds /\ guards = {}
  /\ cur = 5 /\ old = <<1, 4>>
  /\ mem[2].st = "freed" /\ mem[3].st = "freed"
  /\ mem[4].val # mem[5].val /\ mem[4].st = "live"

\* One step of C19's property.
C19_Step ==
  kind \in {"BoxCell", "RcCell", "BoxCellSync"} =>
    /\ \A h \in Handles : ~UpdatePanics(h)
    /\ status' = "run"

\* C19: BoxCell (boxcell.rs), RcCell (rccell.rs) and BoxCellSync: an update
\* called while another guard of the slot is outstanding returns a guard:
\* no call of update fails to return.
C19_UpdateUnprotected == [][C19_Step]_vars

\* C20: graceful::Rcu: the pointer of every live Rcu is non-null and points
\* to a value that is allocated, in every state; after clone the original
\* still points to its value.
C20_PointerValid ==
  \A x \in RcuIds : rst[x] = "live" => Ptr(x) # 0 /\ gvals[Ptr(x)].st = "live"

\* No thread is inside update.
UpdatersIdle == \A u \in Updaters : UAt(u, "idle")

\* One step of C21's property.
C21_Step ==
  /\ \A i \in DOMAIN graces :
       Read(i) => /\ [g |-> i, v |-> rcu] \in rguards'
                  /\ gvals'[rcu].st = "live"
                  /\ rguards' \ rguards \subseteq {[g |-> i, v |-> rcu]}
  /\ \A r \in rguards \cap rguards' :
       gvals'[r.v].st = "live" /\ gvals'[r.v].val = gvals[r.v].val
  /\ \A u \in Updaters : UpdSwap(u) => rguards' = rguards

\* C21: graceful::Rcu: a read under a Grace returns the value the pointer
\* holds at the time of the read, the one the last update published, however
\* old the Grace is; a guard obtained earlier keeps its value through every
\* later step.
C21_NoSnapshot == [][C21_Step]_vars

\* A Grace made before an update, under which the initial value was read,
\* has been used for a read after that update completed: its guard points to
\* the value the update published.
C21_Witness ==
  /\ UpdatersIdle /\ rcu # 1
  /\ \E r \in rguards :
       /\ ~graces[r.g].tmp /\ graces[r.g].gen < gcur
       /\ r.g \in gvals[1].readers
       /\ r.v = rcu

\* The values retired into vector k, and whether every Grace made while k or
\* an earlier vector was current has been dropped.
RetiredIn(k) == {gens[k].vec[n].id : n \in {m \in DOMAIN gens[k].vec : gens[k].vec[m].k = "val"}}
GracesGone(k) == \A i \in DOMAIN graces : graces[i].gen <= k => graces[i].st = "dropped"

C23_NoLostUpdate ==
  (kind = "BoxCellSync" /\ \A t \in Threads : Idle(t)) =>
    mem[cur].val = mem[1].val + Len(old)

\* The boxes the slot owns: current and the retired ones, or the head slot
\* and its chain.
Owned ==
  IF kind \in ChainKinds THEN {HeadSlot} \cup Chain(mem[HeadSlot].next)
  ELSE {cur} \cup Range(old)

\* C24: RcCell (rccell.rs) and RcRcu: while the slot lives, the boxes it owns
\* are allocated, each owned once, and they are all the allocated boxes
\* apart from guards' copies, so that a clean or the destruction frees a box
\* once; when the last handle is dropped nothing the slot held is left
\* allocated.
C24_FreedOnce ==
  kind \in {"RcCell", "RcRcu"} =>
    /\ SlotLive =>
         /\ \A a \in Owned : mem[a].st = "live"
         /\ \A i, j \in 1..Len(old) : old[i] = old[j] => i = j
         /\ kind = "RcCell" => cur \notin Range(old)
         /\ \A a \in Addrs \cup {HeadSlot} :
              mem[a].st = "live" => a \in Owned \/ \E g \in guards : g.a = a
    /\ ~SlotLive =>
         \A a \in Addrs \cup {HeadSlot} : mem[a].st \in {"unalloc", "freed", "leaked"}

\* Both handles of a slot are dropped after two updates and, for RcRcu, a
\* clean that collapsed the chain: every box the slot held is freed.
C24_Witness ==
  /\ kind \in {"RcCell", "RcRcu"}
  /\ \A h \in Handles : hs[h].st = "dropped"
  /\ \A a \in Addrs : a <= MaxAllocs => mem[a].st = "freed"
  /\ kind = "RcRcu" => ver > 0 /\ mem[HeadSlot].st = "freed"

\* C25: graceful::Rcu: with every update adding one, when no thread is inside
\* update the published value is the initial value plus the number of
\* updates made: none is lost.
C25_UpdatesOrdered ==
  UpdatersIdle => gvals[rcu].val = gvals[1].val + (Len(gvals) - 1)

\* C26: reads never block: deref of every container, and read of
\* graceful::Rcu under a Grace the caller holds, can be taken in every state
\* of a running program, whoever holds an update guard, BoxCellSync's mutex
\* or the grace lock.
C26_ReadsNeverBlock ==
  /\ \A h \in Handles :
       (kind \notin {"none", "BoxCellSync"} /\ Running /\ Live(h)) => ENABLED Deref(h)
  /\ \A t \in Threads :
       (kind = "BoxCellSync" /\ Running /\ ~InCall(t)) => ENABLED SyncDeref(t)
  /\ \A i \in DOMAIN graces :
       (/\ kind = "none" /\ i \in UserGraces /\ graces[i].st = "live"
        /\ Cardinality(UserGuards) < MaxGuards) => ENABLED Read(i)

\* A thread is inside the locked section of graceful update, just after the
\* swap, and a guard read under a user's Grace already points to the value it
\* swapped in.
C26_Witness ==
  \E u \in Updaters :
    /\ glock = u /\ UAt(u, "push")
    /\ \E r \in UserGuards : r.v = rcu /\ rcu = upc[u].new

\* The chain behind the head: allocated nodes, each linking to one that was
\* published before it (addresses are handed out in order).
Newest == mem[HeadSlot].next
ChainOrdered ==
  \A a \in Chain(Newest) :
    mem[a].st = "live" /\ (mem[a].next # Null => mem[a].next < a)

\* One step of C27's property.
C27_Step ==
  (kind \in ChainKinds /\ SlotLive') =>
    /\ \A g \in guards :
         Release(g) => /\ Newest' = g.a
                       /\ mem'[g.a].next = Newest
                       /\ Chain(Newest)' = {g.a} \cup Chain(Newest)
                       /\ DerefVal' = mem[g.a].val
    /\ ChainOrdered'
    /\ ver' = ver => Chain(Newest) \subseteq Chain(Newest)'
    /\ ((\A g \in guards : ~Release(g)) /\ ver' = ver) => DerefVal' = DerefVal
    /\ \A h \in Handles :
         (Deref(h) /\ Newest # Null) => /\ RefTo(Newest) \in refs'[h]
                                         /\ refs'[h] \ refs[h] \subseteq {RefTo(Newest)}

\* C27: RcRcu and ArcRcu: each release puts its node in front of the chain,
\* linked to the node that was newest before, so that without a collapse the
\* head's forward link is the most recently published node and the chain
\* runs from it to the oldest; deref follows that one link and returns the
\* newest value.
C27_ChainNewestFirst == [][C27_Step]_vars

\* Two updates and no collapse: the head links to the second node, that one
\* to the first, and a handle holds a reference to the second node, whose
\* value is not the head's.
C27_Witness ==
  /\ kind \in ChainKinds /\ ver = 0
  /\ Newest = 2 /\ mem[2].next = 1 /\ mem[1].next = Null
  /\ mem[2].val # mem[HeadSlot].val /\ mem[2].val # mem[1].val
  /\ \E h \in Handles : Live(h) /\ RefTo(2) \in refs[h] /\ DerefVal = mem[2].val

\* One step of C28's property.
C28_Step ==
  kind \in EagerKinds =>
    /\ \A g \in guards :
         Release(g) => /\ old' = Append(old, cur)
                       /\ cur' # cur /\ cur' \notin Range(old')
                       /\ mem'[cur'].st = "live" /\ mem'[cur'].val = mem[g.a].val
    /\ \A h \in Handles :
         (Deref(h) \/ Clone(h) \/ Update(h) \/ UpdatePanics(h)) => old' = old /\ cur' = cur
    /\ \A g \in guards, v \in Values : Mutate(g, v) => old' = old /\ cur' = cur
    /\ cur' # cur => \E g \in guards : Release(g)
    /\ old' # old =>
         \/ \E g \in guards : Release(g)
         \/ old' = <<>> /\ \E h \in Handles : Clean(h) \/ (DropHandle(h) /\ LastHandle(h))

\* C28: BoxCell, BoxCellSync and RcCell: a guard's release appends one entry,
\* the displaced box, to old and replaces current once; deref, clone, update
\* and the guard's writes leave old and current alone; old loses entries
\* only in clean and in the destruction of the slot.
C28_RetireOnRelease == [][C28_Step]_vars

\* Two updates released, nothing cleaned: old holds the initial box and the
\* first published one, current is the second.
C28_Witness ==
  /\ kind \in {"BoxCell", "BoxCellSync", "RcCell"}
  /\ guards = {} /\ SlotLive
  /\ old = <<1, 2>> /\ cur = 3

\* Nothing is retired.
StoreEmpty == IF kind \in ChainKinds THEN Newest = Null ELSE old = <<>>

\* One step of C29's property.
C29_Step ==
  \A h \in Handles :
    (kind \in {"RcCell", "RcRcu"} /\ LastHandle(h) /\ Clean(h)) => StoreEmpty'

\* C29: RcCell (rccell.rs) and RcRcu: when every live handle has called
\* clean with no deref or update since, nothing is retired any more; in
\* particular a clean by the only live handle leaves old empty and the
\* chain collapsed.
C29_RetryReclaims == [][C29_Step]_vars

\* C30: graceful: while no update holds the grace lock, the vector GRACE
\* holds is the newest, is allocated and is empty: retired values and links
\* are only in vectors that are no longer current.
C30_CurrentEmpty ==
  (glock = 0 /\ gens # <<>>) =>
    /\ gcur = Len(gens)
    /\ gens[gcur].st = "live"
    /\ gens[gcur].vec = <<>>
    /\ \A k \in DOMAIN gens : gens[k].vec # <<>> => k # gcur

\* An update has completed while a Grace is held: the first vector, kept by
\* that Grace, holds the retired value and the link to the second, which is
\* current and empty.
C30_Witness ==
  /\ glock = 0 /\ UpdatersIdle
  /\ Len(gens) = 2 /\ gcur = 2
  /\ gens[1].st = "live" /\ gens[1].vec = <<ValEntry(1), GenEntry(2)>>
  /\ gens[2].vec = <<>>

\* C31: graceful: a vector that has been freed is not the current one, no
\* live Grace was made while it or an older vector was current, and every
\* older vector has been freed too: vectors are freed in creation order.
C31_FreedInOrder ==
  \A k \in DOMAIN gens :
    gens[k].st = "freed" =>
      /\ k # gcur
      /\ GracesGone(k)
      /\ \A j \in 1..k : gens[j].st = "freed"
      /\ \A v \in RetiredIn(k) : gvals[v].st = "freed"

\* Two updates have completed: the first vector is freed, the second is kept
\* by a Grace made while it was current, the third is current.
C31_Witness ==
  /\ Len(gens) = 3 /\ gcur = 3 /\ UpdatersIdle
  /\ gens[1].st = "freed" /\ gens[2].st = "live" /\ gens[3].st = "live"
  /\ \E i \in UserGraces : graces[i].st = "live" /\ graces[i].gen = 2

\* The vectors that vector k holds a link to.
LinksOf(k) == {gens[k].vec[n].id : n \in {m \in DOMAIN gens[k].vec : gens[k].vec[m].k = "gen"}}

\* C32 as amended: the link an update stores in the vector it seals keeps
\* the new vector: the new vector is not destroyed before the sealed one.
C32_NewOutlivesSealed ==
  \A k \in DOMAIN gens : \A n \in LinksOf(k) :
    gens[n].st = "freed" => gens[k].st = "freed"

\* C32 as stated: the sealed vector is not destroyed before the new one.
C32_SealedOutlivesNew ==
  \A k \in DOMAIN gens : \A n \in LinksOf(k) :
    gens[k].st = "freed" => gens[n].st = "freed"

\* The first vector, sealed by an update, is freed; the vector that update
\* installed, sealed by a second update, was kept until then and is freed
\* as well.
C32_Witness ==
  /\ Len(gens) = 3 /\ gcur = 3
  /\ LinksOf(1) = {2} /\ LinksOf(2) = {3}
  /\ gens[1].st = "freed" /\ gens[2].st = "freed" /\ gens[3].st = "live"

\* How often value v is retired, over all vectors, and the values that
\* updates have made and not yet swapped in.
Retirements(v) ==
  Cardinality({kn \in (DOMAIN gens) \X (1..(2 * Len(gvals))) :
                 kn[2] \in DOMAIN gens[kn[1]].vec /\ gens[kn[1]].vec[kn[2]] = ValEntry(v)})
Unpublished == {upc[u].new : u \in {w \in Updaters : upc[w].at \in {"ungrace", "lock", "swap"}}}

\* One step of C33's property.
C33_Step ==
  /\ glock # 0 =>
       /\ Len(graces') = Len(graces)
       /\ rcu' # rcu => UpdSwap(glock)
       /\ gcur' # gcur => UpdInstall(glock)
       /\ gens' # gens => UpdPush(glock) \/ UpdLink(glock) \/ UpdInstall(glock)
                           \/ \E i \in DOMAIN graces : graces'[i].st # graces[i].st
       /\ glock' # glock => UpdInstall(glock) /\ glock' = 0
  /\ \A u \in Updaters :
       UpdPush(u) => /\ glock = u
                     /\ gens'[gcur].vec = Append(gens[gcur].vec, ValEntry(upc[u].old))
                     /\ Retirements(upc[u].old) = 0
  /\ (glock' = 0) =>
       (\A v \in DOMAIN gvals :
          Retirements(v) = IF v = rcu \/ v \in Unpublished THEN 0 ELSE 1)'

\* C33: graceful: while a thread is in the locked section of update, no
\* other thread swaps the pointer, creates a Grace, pushes onto a vector or
\* changes the current vector; each displaced value is pushed once, onto the
\* vector that was current at its swap, so that outside the section every
\* displaced value is retired exactly once.
C33_PublishAtomic == [][C33_Step]_vars

\* One thread is between its swap and its push while the other waits for
\* the grace lock with its new value ready.
C33_Witness ==
  \E u, w \in Updaters :
    /\ u # w /\ glock = u
    /\ UAt(u, "push") /\ UAt(w, "lock")

\* One step of C34's property.
C34_Step ==
  \A h \in Handles :
    (kind = "BoxRcu" /\ mem[cur].next = Null /\ Clean(h)) =>
      /\ status' = "run"
      /\ mem' = mem /\ cur' = cur /\ old' = old

\* C34: BoxRcu and BoxNew: clean on a container whose current node has no
\* forward link does nothing: the program goes on, nothing is freed and the
\* container is as it was.
C34_CleanNoChainNoop == [][C34_Step]_vars

\* C35: ArcRcu: however two threads' derefs of one handle interleave, they
\* raise borrow_count by one in total: when no thread is inside deref the
\* count is one for the handle if its flag is set and zero if not.
C35_SharedDerefCountsOnce ==
  (kind = "ArcRcu" /\ AllIdle /\ Running) =>
    count = Cardinality({h \in Handles : Live(h) /\ hs[h].flag})

\* C36: RcCell (rccell.rs) and RcRcu: borrow_count is never below the number
\* of live handles whose have_borrowed flag is set, so no clean subtracts
\* from a count of zero.
C36_CountCoversFlagged ==
  (kind \in {"RcCell", "RcRcu"} /\ SlotLive /\ Running) =>
    /\ count >= Cardinality(Flagged)
    /\ \A h \in Handles : Live(h) => CleanOutcomes(h) = {"ok"}

\* C36 happens: two handles, a clean has taken the count down to zero and
\* freed a retired value, and no flag is left set.
C36_Witness ==
  /\ kind \in {"RcCell", "RcRcu"} /\ Running
  /\ \A h \in Handles : Live(h) /\ ~hs[h].flag
  /\ count = 0
  /\ \E a \in Addrs : mem[a].st = "freed"

\* C37: RcRcu and ArcRcu: at most one update guard is outstanding, am_writing
\* is set exactly while one is, and of the handles that call update one
\* gets the guard and every other panics: while a guard is out update
\* panics through every handle, and once it is released update succeeds.
C37_OneWriter ==
  (kind \in ChainKinds /\ Running) =>
    /\ Cardinality(guards) <= 1
    /\ writing <=> guards # {}
    /\ \A h \in Handles : Live(h) =>
         /\ writing => ~ENABLED Update(h) /\ ENABLED UpdatePanics(h)
         /\ (~writing /\ HasFresh(1)) => ENABLED Update(h) /\ ~ENABLED UpdatePanics(h)

\* C37 happens: in ArcRcu, after one update has been released, a guard is
\* out while two handles are alive, both of them between calls.
C37_Witness ==
  /\ kind = "ArcRcu" /\ Running
  /\ \A h \in Handles : Live(h) /\ Idle(h)
  /\ Cardinality(guards) = 1 /\ writing
  /\ mem[HeadSlot].next # Null

\* C38: RcRcu: while a guard is out and whenever the head has a forward link,
\* borrow_count is at least one; the link a guard captured is the head's
\* link for as long as the guard lives, so until its release; every node of
\* the chain is allocated and every allocated node is in the chain.
C38_CapturedLinkCurrent ==
  (kind = "RcRcu" /\ SlotLive /\ Running) =>
    /\ (guards # {} \/ mem[HeadSlot].next # Null) => count >= 1
    /\ \A g \in guards : mem[g.a].next = mem[HeadSlot].next
    /\ \A a \in Chain(mem[HeadSlot].next) : mem[a].st = "live"
    /\ \A a \in Addrs : mem[a].st = "live" => a \in Chain(mem[HeadSlot].next)

\* C38 happens: after a collapse, a second update was released and a third
\* guard is out over the chain it left, and a handle without a borrow of
\* its own stands beside the guard's.
C38_Witness ==
  /\ kind = "RcRcu" /\ Running /\ ver >= 1
  /\ guards # {} /\ mem[HeadSlot].next # Null
  /\ \E h \in Handles : Live(h) /\ ~hs[h].flag /\ GuardsOf(h) = {}

\* The locks of update are nested and none is kept: the vector's mutex is
\* held only inside the mutex of GRACE, GRACE is held only by a thread in
\* its publish section, and some thread inside update can always step.
C39_Safe ==
  /\ \A u \in Updaters : VecLockHeld(u) => glock = u
  /\ \A u \in Updaters : glock = u <=> (VecLockHeld(u) \/ UAt(u, "install"))
  /\ glock \in Updaters \cup {0}
  /\ UpdatersIdle => glock = 0
  /\ ~UpdatersIdle => \E u \in Updaters : ENABLED UpdateStep(u)

====
